---- MODULE Spec2Model ----
(***************************************************************************)
(* A model of CSS::Parser and its nested Lexer (src/CSS.h).                *)
(*                                                                         *)
(* A text is a sequence of one-character strings.  Positions are 0-based   *)
(* as in the C++ code: the character at position p of text t is t[p + 1].  *)
(* The constructor tokenizes the whole input, so the initial state holds   *)
(* the finished token vector; parse() is modelled statement by statement.  *)
(***************************************************************************)
EXTENDS Integers, Sequences, FiniteSets, TLC

(***************************************************************************)
(* Bounds of the model                                                     *)
(***************************************************************************)
MaxLexemes == 3

MaxItems == 4

MaxCalls == 2

(***************************************************************************)
(* Character classes (the <cctype> predicates over the ASCII range)        *)
(***************************************************************************)
Space == {" ", "\t", "\n", "\r"}

Alpha ==
  {"a", "b", "c", "d", "e", "f", "g", "h", "i", "j", "k", "l", "m",
   "n", "o", "p", "q", "r", "s", "t", "u", "v", "w", "x", "y", "z",
   "A", "B", "C", "D", "E", "F", "G", "H", "I", "J", "K", "L", "M",
   "N", "O", "P", "Q", "R", "S", "T", "U", "V", "W", "X", "Y", "Z"}

Digit == {"0", "1", "2", "3", "4", "5", "6", "7", "8", "9"}

Alnum == Alpha \cup Digit

NUL == "NUL"

(***************************************************************************)
(* Tokens                                                                  *)
(***************************************************************************)
TokenType ==
  {"Identifier", "Number", "String", "Colon", "Semicolon", "BraceOpen",
   "BraceClose", "HexColor", "Unknown", "EndOfFile"}

Token(type, value) == [type |-> type, value |-> value]

InvalidColor == <<"<", "I", "n", "v", "a", "l", "i", "d", "C", "o", "l", "o", "r", ">">>

(***************************************************************************)
(* std::string::substr(start, count) with count a size_t: a negative       *)
(* difference wraps to a huge count, which substr clamps to the rest of    *)
(* the string.                                                             *)
(***************************************************************************)
substr(text, start, count) ==
  LET rest == Len(text) - start
      n == IF count < 0 \/ count > rest THEN rest ELSE count
  IN SubSeq(text, start + 1, start + n)

(***************************************************************************)
(* Lexer                                                                   *)
(***************************************************************************)
lexPeek(text, pos, offset) ==
  IF pos + offset < Len(text) THEN text[pos + offset + 1] ELSE NUL

\* The position at which a loop `while (position < size && input[position] in cls) position++` stops.
RECURSIVE skipWhile(_, _, _)
skipWhile(text, pos, cls) ==
  IF pos < Len(text) /\ text[pos + 1] \in cls
  THEN skipWhile(text, pos + 1, cls)
  ELSE pos

\* The position at which a loop `while (position < size && input[position] != stop) position++` stops.
RECURSIVE skipUntil(_, _, _)
skipUntil(text, pos, stop) ==
  IF pos < Len(text) /\ text[pos + 1] # stop
  THEN skipUntil(text, pos + 1, stop)
  ELSE pos

\* The position at which the comment loop stops: at a '*' followed by '/', or at the end.
RECURSIVE skipComment(_, _)
skipComment(text, pos) ==
  IF pos < Len(text) /\ ~(text[pos + 1] = "*" /\ lexPeek(text, pos, 1) = "/")
  THEN skipComment(text, pos + 1)
  ELSE pos

lexIdentifier(text, pos) ==
  LET end == skipWhile(text, pos, Alnum \cup {"-"})
  IN [pos |-> end, emit |-> <<Token("Identifier", substr(text, pos, end - pos))>>]

lexNumber(text, pos) ==
  LET end == skipWhile(text, pos, Digit)
  IN [pos |-> end, emit |-> <<Token("Number", substr(text, pos, end - pos))>>]

\* A slip: a length check that also lets shorter bodies through.
lexHexColorAtMostSix(text, pos) ==
  LET start == pos + 1
      end == skipUntil(text, start, ";")
  IN IF end - start > 6
     THEN [pos |-> end, emit |-> <<Token("Unknown", InvalidColor)>>]
     ELSE [pos |-> end, emit |-> <<Token("HexColor", substr(text, start, end - start))>>]

lexHexColor(text, pos) ==
  LET start == pos + 1
      end == skipUntil(text, start, ";")
  IN IF end - start # 6
     THEN [pos |-> end, emit |-> <<Token("Unknown", InvalidColor)>>]
     ELSE [pos |-> end, emit |-> <<Token("HexColor", substr(text, start, end - start))>>]

lexString(text, pos) ==
  LET start == pos + 1
      stop == skipUntil(text, start, "\"")
      end == IF stop < Len(text) THEN stop + 1 ELSE stop
  IN [pos |-> end, emit |-> <<Token("String", substr(text, start, end - start - 1))>>]

\* A slip: a comment branch that skips a closing '*/' that is not there.
lexCommentPastEnd(text, pos) ==
  [pos |-> skipComment(text, pos + 2) + 2, emit |-> <<>>]

lexComment(text, pos) ==
  LET stop == skipComment(text, pos + 2)
  IN [pos |-> IF stop < Len(text) THEN stop + 2 ELSE stop, emit |-> <<>>]

\* One iteration of the loop of tokenize() at position pos < Len(text).
lexStep(text, pos) ==
  LET c == text[pos + 1]
  IN IF c \in Space THEN [pos |-> skipWhile(text, pos, Space), emit |-> <<>>]
     ELSE IF c \in Alpha \/ c = "-" THEN lexIdentifier(text, pos)
     ELSE IF c \in Digit THEN lexNumber(text, pos)
     ELSE IF c = "\"" THEN lexString(text, pos)
     ELSE IF c = ":" THEN [pos |-> pos + 1, emit |-> <<Token("Colon", <<":">>)>>]
     ELSE IF c = ";" THEN [pos |-> pos + 1, emit |-> <<Token("Semicolon", <<";">>)>>]
     ELSE IF c = "{" THEN [pos |-> pos + 1, emit |-> <<Token("BraceOpen", <<"{">>)>>]
     ELSE IF c = "}" THEN [pos |-> pos + 1, emit |-> <<Token("BraceClose", <<"}">>)>>]
     ELSE IF c = "#" THEN lexHexColor(text, pos)
     ELSE IF c = "/" /\ lexPeek(text, pos, 1) = "*" THEN lexComment(text, pos)
     ELSE [pos |-> pos + 1, emit |-> <<Token("Unknown", <<c>>)>>]

\* The loop of tokenize() from position pos on, with the tokens pushed so far.
RECURSIVE lexLoop(_, _, _)
lexLoop(text, pos, toks) ==
  IF pos < Len(text)
  THEN LET s == lexStep(text, pos) IN lexLoop(text, s.pos, toks \o s.emit)
  ELSE toks

tokenize(text) == Append(lexLoop(text, 0, <<>>), Token("EndOfFile", <<>>))

(***************************************************************************)
(* Source texts                                                            *)
(***************************************************************************)
RECURSIVE Concat(_)
Concat(ss) == IF ss = <<>> THEN <<>> ELSE Head(ss) \o Concat(Tail(ss))

SeqsUpTo(S, n) == UNION {[1..k -> S] : k \in 0..n}

\* Short texts: every concatenation of at most MaxLexemes of these pieces.
Lexemes ==
  {<<"a">>, <<"{">>, <<"}">>, <<":">>, <<";">>, <<"1">>, <<"?">>, <<" ">>,
   <<"\"">>, <<"#", "1", "2", "3", "4", "5">>, <<"/", "*">>, <<"*", "/">>}

LexemeTexts == {Concat(s) : s \in SeqsUpTo(Lexemes, MaxLexemes)}

\* Documents: a sequence of rule headers and declarations, rendered as text.
Selectors == {<<"a">>, <<"b">>}

DeclTexts ==
  {[prop |-> <<"a">>, val |-> <<"1">>],
   [prop |-> <<"a">>, val |-> <<"\"", "s", "\"">>],
   [prop |-> <<"b">>, val |-> <<"b">>],
   [prop |-> <<"b">>, val |-> <<"#", "0", "8", "0", "9", "0", "E">>],
   [prop |-> <<"a">>, val |-> <<"#", "f", "f", "f">>]}

Items ==
  {[kind |-> "rule", sel |-> s] : s \in Selectors}
    \cup {[kind |-> "decl", decl |-> d] : d \in DeclTexts}

Docs == {d \in SeqsUpTo(Items, MaxItems) : d = <<>> \/ d[1].kind = "rule"}

\* A variant of a document: as written, led by a comment, cut before the
\* last closing brace, with the colon of declaration `miss` left out, or
\* with the selector of rule `anon` left out.
Variants(doc) ==
  {[lead |-> FALSE, trunc |-> FALSE, miss |-> 0, anon |-> 0],
   [lead |-> TRUE, trunc |-> FALSE, miss |-> 0, anon |-> 0]}
    \cup {[lead |-> FALSE, trunc |-> TRUE, miss |-> 0, anon |-> 0] :
            x \in {1} \cap DOMAIN doc}
    \cup {[lead |-> FALSE, trunc |-> FALSE, miss |-> i, anon |-> 0] :
            i \in {j \in DOMAIN doc : doc[j].kind = "decl"}}
    \cup {[lead |-> FALSE, trunc |-> FALSE, miss |-> 0, anon |-> i] :
            i \in {j \in DOMAIN doc : doc[j].kind = "rule"}}

CommentText == <<"/", "*", "c", "*", "/">>

RenderItem(doc, i, v) ==
  IF doc[i].kind = "rule"
  THEN (IF i > 1 THEN <<"}", "\n">> ELSE <<>>)
         \o (IF v.anon = i THEN <<>> ELSE doc[i].sel) \o <<" ", "{">>
  ELSE doc[i].decl.prop \o (IF v.miss = i THEN <<" ">> ELSE <<":", " ">>)
         \o doc[i].decl.val \o <<";">>

Render(doc, v) ==
  (IF v.lead THEN CommentText \o <<" ">> ELSE <<>>)
    \o Concat([i \in DOMAIN doc |-> RenderItem(doc, i, v)])
    \o (IF doc # <<>> /\ ~v.trunc THEN <<"}">> ELSE <<>>)

DocTexts == UNION {{Render(d, v) : v \in Variants(d)} : d \in Docs}

Inputs == LexemeTexts \cup DocTexts

(***************************************************************************)
(* Parser state                                                            *)
(***************************************************************************)
VARIABLES
  input,       \* Lexer::input, the source text
  tokens,      \* Parser::tokens
  position,    \* Parser::position, the cursor into tokens
  stylesheet,  \* Parser::stylesheet
  hadError,    \* Parser::hadError
  lastError,   \* Parser::lastError
  pc,          \* the statement of parse() about to run
  selector,    \* the local `selector` of parseRule
  property,    \* the local `property` of parseDeclaration
  value,       \* the local `value` of parseDeclaration
  calls,       \* how many times the caller has called parse()
  lastCall,    \* history: the message of the most recent makeError call
  raised,      \* history: the messages makeError has been called with
  started      \* history: the selectors of the rules parseRule has begun

vars ==
  <<input, tokens, position, stylesheet, hadError, lastError, pc, selector,
    property, value, calls, lastCall, raised, started>>

NoMsg == ""

NoError == [errMsg |-> "", errLine |-> <<>>]

EmptyMap == [k \in {} |-> <<>>]

Put(m, k, v) == [x \in DOMAIN m \cup {k} |-> IF x = k THEN v ELSE m[x]]

\* A slip: a store that keeps the value a property already has.
StoreDeclNoOverwrite(ss, sel, prop, val) ==
  LET table == IF sel \in DOMAIN ss THEN ss[sel] ELSE EmptyMap
  IN Put(ss, sel, IF prop \in DOMAIN table THEN table ELSE Put(table, prop, val))

\* stylesheet[sel][prop] = val, operator[] creating what is missing.
StoreDecl(ss, sel, prop, val) ==
  LET table == IF sel \in DOMAIN ss THEN ss[sel] ELSE EmptyMap
  IN Put(ss, sel, Put(table, prop, val))

\* tokens.at(i) throws unless 0 <= i < size (i = position - 1 wraps to
\* SIZE_MAX when position is 0, which is out of range as well).
InRange(toks, i) == 0 <= i /\ i < Len(toks)

at(toks, i) == toks[i + 1]

isAtEnd(toks, pos) == pos >= Len(toks) \/ at(toks, pos).type = "EndOfFile"

advance(toks, pos) == IF ~isAtEnd(toks, pos) THEN pos + 1 ELSE pos

\* A slip: a match that does not compare the type of the token under the cursor.
matchAnyType(toks, pos, type) ==
  IF isAtEnd(toks, pos)
  THEN [ok |-> FALSE, pos |-> pos]
  ELSE [ok |-> TRUE, pos |-> advance(toks, pos)]

\* A slip: a match that consumes the token under the cursor even when it fails.
matchAlwaysAdvance(toks, pos, type) ==
  IF isAtEnd(toks, pos) \/ at(toks, pos).type # type
  THEN [ok |-> FALSE, pos |-> advance(toks, pos)]
  ELSE [ok |-> TRUE, pos |-> advance(toks, pos)]

\* match(type): whether it matched, and the cursor afterwards.
match(toks, pos, type) ==
  IF isAtEnd(toks, pos) \/ at(toks, pos).type # type
  THEN [ok |-> FALSE, pos |-> pos]
  ELSE [ok |-> TRUE, pos |-> advance(toks, pos)]

\* A slip: an error slot that keeps the first error.
makeErrorKeepFirst(had, last, msg, text) ==
  [hadError |-> TRUE,
   lastError |-> IF had THEN last ELSE [errMsg |-> msg, errLine |-> text]]

\* A slip: an error report that forgets to set the flag.
makeErrorNoFlag(had, last, msg, text) ==
  [hadError |-> had, lastError |-> [errMsg |-> msg, errLine |-> text]]

\* makeError(msg): the flag and the error slot afterwards.
makeError(had, last, msg, text) ==
  [hadError |-> TRUE, lastError |-> [errMsg |-> msg, errLine |-> text]]

\* A slip: a top-level loop that does not look at the error flag.
parseContinuesNoFlag(toks, pos, had) == ~isAtEnd(toks, pos)

\* The condition of the loop of parse().
parseContinues(toks, pos, had) == ~isAtEnd(toks, pos) /\ ~had

\* A slip: a block loop that does not stop at the closing brace.
blockContinuesNoBrace(toks, pos) == ~isAtEnd(toks, pos)

\* The condition of the loop of parseDeclarationBlock().
blockContinues(toks, pos) == at(toks, pos).type # "BraceClose" /\ ~isAtEnd(toks, pos)

\* A slip: a selector taken from whatever token is under the cursor.
parseSelectorAnyToken(toks, pos) ==
  LET next == advance(toks, pos)
  IN [selector |-> IF next > pos THEN at(toks, next - 1).value ELSE <<>>, pos |-> next]

\* parseSelector(): the selector and the cursor afterwards.
parseSelector(toks, pos) ==
  LET m == match(toks, pos, "Identifier")
  IN [selector |-> IF m.ok THEN at(toks, m.pos - 1).value ELSE <<>>, pos |-> m.pos]

\* The chain of matches of parseValue(), left to right with short circuit.
matchValue(toks, pos) ==
  LET n == match(toks, pos, "Number")
      s == match(toks, pos, "String")
      i == match(toks, pos, "Identifier")
      h == match(toks, pos, "HexColor")
  IN IF n.ok THEN n ELSE IF s.ok THEN s ELSE IF i.ok THEN i ELSE h

Init ==
  /\ input \in Inputs
  /\ tokens = tokenize(input)
  /\ position = 0
  /\ stylesheet = EmptyMap
  /\ hadError = FALSE
  /\ lastError = NoError
  /\ pc = "idle"
  /\ selector = <<>>
  /\ property = <<>>
  /\ value = <<>>
  /\ calls = 0
  /\ lastCall = NoMsg
  /\ raised = {}
  /\ started = {}

\* The effect of `if (!match(type)) { makeError(msg); }` followed by a jump to `next`.
Expect(type, msg, next) ==
  LET m == match(tokens, position, type)
      e == makeError(hadError, lastError, msg, input)
  IN /\ position' = m.pos
     /\ hadError' = IF m.ok THEN hadError ELSE e.hadError
     /\ lastError' = IF m.ok THEN lastError ELSE e.lastError
     /\ lastCall' = IF m.ok THEN lastCall ELSE msg
     /\ raised' = IF m.ok THEN raised ELSE raised \cup {msg}
     /\ pc' = next

\* A slip: a parse() that clears the error state on entry.
CallClearsError ==
  /\ pc \in {"idle", "done"}
  /\ calls < MaxCalls
  /\ calls' = calls + 1
  /\ pc' = "parse"
  /\ hadError' = FALSE
  /\ lastError' = NoError
  /\ UNCHANGED <<input, tokens, position, stylesheet, selector, property,
                 value, lastCall, raised, started>>

\* The caller calls parse(): control enters its loop.
Call ==
  /\ pc \in {"idle", "done"}
  /\ calls < MaxCalls
  /\ calls' = calls + 1
  /\ pc' = "parse"
  /\ UNCHANGED <<input, tokens, position, stylesheet, hadError, lastError,
                 selector, property, value, lastCall, raised, started>>

\* while (!isAtEnd() && !hadError) parseRule();
ParseLoop ==
  /\ pc = "parse"
  /\ pc' = IF parseContinues(tokens, position, hadError) THEN "parseRule" ELSE "done"
  /\ UNCHANGED <<input, tokens, position, stylesheet, hadError, lastError,
                 selector, property, value, calls, lastCall, raised, started>>

\* const auto selector = parseSelector();
RuleSelector ==
  /\ pc = "parseRule"
  /\ LET r == parseSelector(tokens, position)
     IN /\ selector' = r.selector
        /\ position' = r.pos
        /\ started' = started \cup {r.selector}
  /\ pc' = "ruleOpen"
  /\ UNCHANGED <<input, tokens, stylesheet, hadError, lastError, property,
                 value, calls, lastCall, raised>>

\* if (!match(TokenType::BraceOpen)) { makeError(...); }
RuleOpen ==
  /\ pc = "ruleOpen"
  /\ Expect("BraceOpen", "Expected '{' after selector.", "block")
  /\ UNCHANGED <<input, tokens, stylesheet, selector, property, value, calls, started>>

\* while (peek().type != TokenType::BraceClose and !isAtEnd()) parseDeclaration(selector);
BlockLoop ==
  /\ pc = "block"
  /\ pc' = IF ~InRange(tokens, position) THEN "aborted"
           ELSE IF blockContinues(tokens, position) THEN "declName"
           ELSE "ruleClose"
  /\ UNCHANGED <<input, tokens, position, stylesheet, hadError, lastError,
                 selector, property, value, calls, lastCall, raised, started>>

\* if (!match(TokenType::Identifier)) { makeError("Expected property name."); }
DeclName ==
  /\ pc = "declName"
  /\ Expect("Identifier", "Expected property name.", "declProperty")
  /\ UNCHANGED <<input, tokens, stylesheet, selector, property, value, calls, started>>

\* const std::string property = tokens.at(position - 1).value;
DeclProperty ==
  /\ pc = "declProperty"
  /\ IF InRange(tokens, position - 1)
     THEN property' = at(tokens, position - 1).value /\ pc' = "declColon"
     ELSE property' = property /\ pc' = "aborted"
  /\ UNCHANGED <<input, tokens, position, stylesheet, hadError, lastError,
                 selector, value, calls, lastCall, raised, started>>

\* if (!match(TokenType::Colon)) { makeError("Expected ':' after property name."); }
DeclColon ==
  /\ pc = "declColon"
  /\ Expect("Colon", "Expected ':' after property name.", "declValue")
  /\ UNCHANGED <<input, tokens, stylesheet, selector, property, value, calls, started>>

\* const std::string value = parseValue();
DeclValue ==
  /\ pc = "declValue"
  /\ LET m == matchValue(tokens, position)
         msg == "Expected a value after '<property>:'."
         e == makeError(hadError, lastError, msg, input)
     IN /\ position' = m.pos
        /\ value' = IF m.ok THEN at(tokens, m.pos - 1).value ELSE <<>>
        /\ hadError' = IF m.ok THEN hadError ELSE e.hadError
        /\ lastError' = IF m.ok THEN lastError ELSE e.lastError
        /\ lastCall' = IF m.ok THEN lastCall ELSE msg
        /\ raised' = IF m.ok THEN raised ELSE raised \cup {msg}
  /\ pc' = "declSemicolon"
  /\ UNCHANGED <<input, tokens, stylesheet, selector, property, calls, started>>

\* if (!match(TokenType::Semicolon)) { makeError("Expected ';' after property value."); }
DeclSemicolon ==
  /\ pc = "declSemicolon"
  /\ Expect("Semicolon", "Expected ';' after property value.", "declStore")
  /\ UNCHANGED <<input, tokens, stylesheet, selector, property, value, calls, started>>

\* stylesheet[selector][property] = value; and parseDeclaration returns.
DeclStore ==
  /\ pc = "declStore"
  /\ stylesheet' = StoreDecl(stylesheet, selector, property, value)
  /\ property' = <<>>
  /\ value' = <<>>
  /\ pc' = "block"
  /\ UNCHANGED <<input, tokens, position, hadError, lastError, selector,
                 calls, lastCall, raised, started>>

\* if (!match(TokenType::BraceClose)) { makeError(...); } and parseRule returns.
RuleClose ==
  /\ pc = "ruleClose"
  /\ Expect("BraceClose", "Expected '}' after declaration block.", "parse")
  /\ selector' = <<>>
  /\ UNCHANGED <<input, tokens, stylesheet, property, value, calls, started>>

Next ==
  \/ Call
  \/ ParseLoop
  \/ RuleSelector
  \/ RuleOpen
  \/ BlockLoop
  \/ DeclName
  \/ DeclProperty
  \/ DeclColon
  \/ DeclValue
  \/ DeclSemicolon
  \/ DeclStore
  \/ RuleClose

Spec == Init /\ [][Next]_vars

\* parse() is straight-line sequential code: a statement that can run, runs.
FairSpec == Spec /\ WF_vars(Next)

TypeOK ==
  /\ position \in 0..(Len(tokens) - 1)
  /\ hadError \in BOOLEAN
  /\ calls \in 0..MaxCalls

(***************************************************************************)
(* The grammar of section 4.2, read off a token sequence                   *)
(*   rule := Identifier BraceOpen declaration* BraceClose                  *)
(*   declaration := Identifier [Colon] value Semicolon                     *)
(* independently of the parser: whether the sequence has that form, how    *)
(* many declarations lack their Colon, how many rules have an empty block, *)
(* whether the last rule is cut off before its BraceClose, and the         *)
(* declarations in order.                                                  *)
(***************************************************************************)
ValueTypes == {"Number", "String", "Identifier", "HexColor"}

NoShape == [ok |-> FALSE, trunc |-> FALSE, miss |-> 0, empty |-> 0, decls |-> <<>>]

RECURSIVE ShapeFrom(_, _, _, _)
ShapeFrom(toks, i, st, acc) ==
  LET t == toks[i]
      Go(next, a) == ShapeFrom(toks, i + 1, next, a)
  IN CASE st = "top" ->
            IF t.type = "EndOfFile"
            THEN [ok |-> TRUE, trunc |-> FALSE, miss |-> acc.miss,
                  empty |-> acc.empty, decls |-> acc.decls]
            ELSE IF t.type = "Identifier"
            THEN Go("open", [acc EXCEPT !.sel = t.value, !.n = 0])
            ELSE NoShape
       [] st = "open" ->
            IF t.type = "BraceOpen" THEN Go("body", acc) ELSE NoShape
       [] st = "body" ->
            IF t.type = "EndOfFile"
            THEN [ok |-> TRUE, trunc |-> TRUE, miss |-> acc.miss,
                  empty |-> acc.empty, decls |-> acc.decls]
            ELSE IF t.type = "BraceClose"
            THEN Go("top", [acc EXCEPT !.empty = IF acc.n = 0 THEN @ + 1 ELSE @])
            ELSE IF t.type = "Identifier"
            THEN Go("colon", [acc EXCEPT !.prop = t.value])
            ELSE NoShape
       [] st = "colon" ->
            IF t.type = "Colon" THEN Go("value", acc)
            ELSE IF t.type \in ValueTypes
            THEN Go("semi", [acc EXCEPT !.miss = @ + 1, !.val = t.value])
            ELSE NoShape
       [] st = "value" ->
            IF t.type \in ValueTypes THEN Go("semi", [acc EXCEPT !.val = t.value])
            ELSE NoShape
       [] st = "semi" ->
            IF t.type = "Semicolon"
            THEN Go("body",
                    [acc EXCEPT !.n = @ + 1,
                                !.decls = Append(@, [sel |-> acc.sel, prop |-> acc.prop,
                                                     val |-> acc.val])])
            ELSE NoShape

Shape(toks) ==
  ShapeFrom(toks, 1, "top",
            [miss |-> 0, empty |-> 0, n |-> 0, decls |-> <<>>,
             sel |-> <<>>, prop |-> <<>>, val |-> <<>>])

\* The value of the last declaration of property p under selector s.
LastValue(decls, s, p) ==
  LET I == {i \in DOMAIN decls : decls[i].sel = s /\ decls[i].prop = p}
      last == CHOOSE i \in I : \A j \in I : j <= i
  IN decls[last].val

\* The Stylesheet the declarations describe: last write wins.
ExpectedSheet(decls) ==
  [s \in {decls[i].sel : i \in DOMAIN decls} |->
     [p \in {decls[i].prop : i \in {j \in DOMAIN decls : decls[j].sel = s}} |->
        LastValue(decls, s, p)]]

(***************************************************************************)
(* C1: parse() terminates for every source text: once called, it reaches   *)
(* its return (here also counting an abort as an end), in particular when  *)
(* a BraceOpen or an Unknown token heads a declaration inside a block.     *)
(***************************************************************************)
ParseTerminates == (pc = "parse") ~> (pc \in {"done", "aborted"})

(***************************************************************************)
(* C2: every read of the token sequence during parse() uses an index       *)
(* within 0 .. size-1; the read at cursor-1 never happens with the cursor  *)
(* at 0, so parse() never aborts.                                          *)
(***************************************************************************)
ReadsInRange ==
  /\ pc = "block" => InRange(tokens, position)
  /\ pc = "declProperty" => InRange(tokens, position - 1)
  /\ pc # "aborted"

(***************************************************************************)
(* C3: for a token sequence of the form                                    *)
(*   (Identifier BraceOpen (Identifier Colon value Semicolon)+ BraceClose)**)
(* parse() raises no error and never aborts, and when it has returned the  *)
(* Stylesheet is exactly the one the declarations describe: one entry per  *)
(* distinct selector, each property mapped to its last declared value.     *)
(***************************************************************************)
WellFormedTokens ==
  LET sh == Shape(tokens) IN sh.ok /\ ~sh.trunc /\ sh.miss = 0 /\ sh.empty = 0

\* (the conclusion first: the form of the tokens is looked at only where it matters)
WellFormedParse ==
  \/ /\ ~hadError
     /\ pc # "aborted"
     /\ pc = "done" => stylesheet = ExpectedSheet(Shape(tokens).decls)
  \/ ~WellFormedTokens

\* Two rules with the same selector, the second re-declaring a property of the first.
WellFormedRedeclared ==
  /\ pc = "done"
  /\ WellFormedTokens
  /\ Cardinality({i \in DOMAIN tokens : tokens[i].type = "BraceOpen"}) = 2
  /\ Cardinality(DOMAIN stylesheet) = 1
  /\ LET d == Shape(tokens).decls
     IN Len(d) = 2 /\ d[1].prop = d[2].prop /\ d[1].val # d[2].val

(***************************************************************************)
(* C4 as stated: after parsing a rule with an empty block (Identifier      *)
(* BraceOpen BraceClose), with or without a comment before it, there is no *)
(* error and the Stylesheet has an entry for the selector whose            *)
(* PropertyTable is empty.                                                 *)
(***************************************************************************)
EmptyRuleTokens ==
  /\ Len(tokens) = 4
  /\ tokens[1].type = "Identifier"
  /\ tokens[2].type = "BraceOpen"
  /\ tokens[3].type = "BraceClose"

EmptyRuleHasEntry ==
  (EmptyRuleTokens /\ pc = "done") =>
    /\ ~hadError
    /\ tokens[1].value \in DOMAIN stylesheet
    /\ stylesheet[tokens[1].value] = EmptyMap

(***************************************************************************)
(* C4 as amended: a rule with an empty block, with or without a comment    *)
(* before it, raises no error and leaves the Stylesheet without any entry: *)
(* an entry is only created by a declaration.                              *)
(***************************************************************************)
EmptyRuleNoEntry ==
  EmptyRuleTokens => (~hadError /\ pc # "aborted" /\ stylesheet = EmptyMap)

\* parse() has returned from an empty rule that a comment precedes.
EmptyRuleAfterComment ==
  /\ pc = "done"
  /\ EmptyRuleTokens
  /\ Len(input) > 2
  /\ SubSeq(input, 1, 2) = <<"/", "*">>

(***************************************************************************)
(* C5: when the value of a declaration is a '#' colour whose body is not 6 *)
(* characters long (the rule `a { c: #fff; }`), parse() finishes with      *)
(* hadError true and the message "Expected a value after '<property>:'.";  *)
(* a body of exactly 6 characters is accepted as the value with no error.  *)
(***************************************************************************)
HexRuleTokens ==
  /\ Len(tokens) = 8
  /\ tokens[1].type = "Identifier"
  /\ tokens[2].type = "BraceOpen"
  /\ tokens[3].type = "Identifier"
  /\ tokens[4].type = "Colon"
  /\ tokens[6].type = "Semicolon"
  /\ tokens[7].type = "BraceClose"

ValueMsg == "Expected a value after '<property>:'."

HexValueChecked ==
  /\ (pc = "parse" /\ HexRuleTokens /\ tokens[5] = Token("Unknown", InvalidColor))
       ~> (pc = "done" /\ hadError /\ lastError.errMsg = ValueMsg)
  /\ [](HexRuleTokens /\ tokens[5].type = "HexColor" =>
          /\ ~hadError
          /\ pc = "done" =>
               stylesheet = ExpectedSheet(<<[sel |-> tokens[1].value,
                                            prop |-> tokens[3].value,
                                            val |-> tokens[5].value]>>))

(***************************************************************************)
(* C6: once hadError is true, parseRule is never entered again, and the    *)
(* selector keys of the Stylesheet stay within the selectors of the rules  *)
(* begun by then.                                                          *)
(***************************************************************************)
NoRuleAfterError ==
  [][hadError =>
       /\ pc' # "parseRule"
       /\ started' = started
       /\ DOMAIN stylesheet' \subseteq started]_vars

\* parse() has returned on an error with a well-formed rule still ahead.
ErrorBeforeLaterRule ==
  /\ pc = "done"
  /\ hadError
  /\ ~isAtEnd(tokens, position)
  /\ LET sh == Shape(SubSeq(tokens, position + 1, Len(tokens)))
     IN sh.ok /\ ~sh.trunc /\ sh.miss = 0 /\ sh.empty = 0

(***************************************************************************)
(* C7: hadError is false until the first makeError call and stays true     *)
(* once set; after any makeError calls, lastError.errMsg is the message of *)
(* the most recent call and lastError.errLine is the whole source text.    *)
(***************************************************************************)
ErrorSlot ==
  /\ raised = {} => (~hadError /\ lastError = NoError /\ lastCall = NoMsg)
  /\ raised # {} =>
       (hadError /\ lastError.errMsg = lastCall /\ lastError.errLine = input)

ErrorSlotSticky == []ErrorSlot /\ [][hadError => hadError']_vars

\* parse() has returned after makeError was called with several messages.
ErrorOverwritten ==
  /\ pc = "done"
  /\ Cardinality(raised) >= 3
  /\ lastError.errMsg = "Expected '}' after declaration block."

(***************************************************************************)
(* C8: a terminated block comment inserted at any boundary between two     *)
(* adjacent tokens of a source text (also directly after a value, before   *)
(* its ';') leaves the token sequence as it is without the comment.        *)
(***************************************************************************)
\* The scan positions at which the tokenize loop stands with a token pushed
\* behind it and text still ahead of it.
RECURSIVE lexHeads(_, _, _)
lexHeads(text, pos, pushed) ==
  IF pos < Len(text)
  THEN LET s == lexStep(text, pos)
           now == pushed \/ s.emit # <<>>
       IN (IF now /\ s.pos < Len(text) THEN {s.pos} ELSE {})
            \cup lexHeads(text, s.pos, now)
  ELSE {}

InsertAt(text, p, piece) ==
  SubSeq(text, 1, p) \o piece \o SubSeq(text, p + 1, Len(text))

CommentsTransparent ==
  pc = "idle" =>
    \A p \in lexHeads(input, 0, FALSE) :
      tokenize(InsertAt(input, p, CommentText)) = tokens

(***************************************************************************)
(* C9: for complete well-formed rules followed by a rule cut off before    *)
(* its BraceClose, parse() never aborts, the only error ever raised is     *)
(* "Expected '}' after declaration block.", it is set when parse() has     *)
(* returned, and every completed declaration is then in the Stylesheet     *)
(* under its selector.                                                     *)
(***************************************************************************)
CloseMsg == "Expected '}' after declaration block."

TruncatedTokens ==
  LET sh == Shape(tokens) IN sh.ok /\ sh.trunc /\ sh.miss = 0

\* (the conclusion first: the form of the tokens is looked at only where it matters)
TruncatedRule ==
  \/ /\ pc # "aborted"
     /\ hadError => lastError.errMsg = CloseMsg
     /\ pc = "done" =>
          /\ hadError
          /\ LET d == Shape(tokens).decls
             IN \A i \in DOMAIN d :
                  /\ d[i].sel \in DOMAIN stylesheet
                  /\ d[i].prop \in DOMAIN stylesheet[d[i].sel]
                  /\ stylesheet[d[i].sel][d[i].prop] = LastValue(d, d[i].sel, d[i].prop)
  \/ ~TruncatedTokens

\* parse() has returned from a complete rule and a cut-off rule with a declaration.
TruncatedAfterDeclaration ==
  /\ pc = "done"
  /\ TruncatedTokens
  /\ Cardinality({i \in DOMAIN tokens : tokens[i].type = "BraceOpen"}) = 2
  /\ tokens[Len(tokens) - 1].type = "Semicolon"

(***************************************************************************)
(* C10: for an otherwise well-formed input in which exactly one            *)
(* declaration lacks its Colon, parse() never aborts, ends with hadError   *)
(* true, and the error is "Expected ':' after property name." from the     *)
(* moment it is raised on: nothing later overwrites it.                    *)
(***************************************************************************)
ColonMsg == "Expected ':' after property name."

MissingColonTokens ==
  LET sh == Shape(tokens) IN sh.ok /\ ~sh.trunc /\ sh.miss = 1

\* (the conclusion first: the form of the tokens is looked at only where it matters)
MissingColon ==
  \/ /\ pc # "aborted"
     /\ hadError => lastError.errMsg = ColonMsg
     /\ pc = "done" => hadError
  \/ ~MissingColonTokens

\* parse() has returned; a declaration follows the one without Colon in its rule.
MissingColonThenDeclaration ==
  /\ pc = "done"
  /\ MissingColonTokens
  /\ hadError
  /\ isAtEnd(tokens, position)
  /\ Len(Shape(tokens).decls) >= 2

(***************************************************************************)
(* C11: tokenization is total: at every position of every source text one  *)
(* iteration of the tokenize loop moves the scan position forward by at    *)
(* least one character and never beyond the end of the input, and the      *)
(* token sequence holds exactly one EndOfFile token, its last element.     *)
(***************************************************************************)
TokenizeTotal ==
  pc = "idle" =>
    /\ \A p \in 0..(Len(input) - 1) :
         LET s == lexStep(input, p) IN s.pos > p /\ s.pos <= Len(input)
    /\ tokens[Len(tokens)].type = "EndOfFile"
    /\ \A i \in 1..(Len(tokens) - 1) : tokens[i].type # "EndOfFile"

\* A text that ends inside a comment, after a token.
UnterminatedCommentScanned ==
  /\ pc = "idle"
  /\ input = <<"a", "/", "*", "a">>
  /\ Len(tokens) = 2

(***************************************************************************)
(* C12: a statement that calls match moves the cursor forward by exactly   *)
(* one when the token under the cursor has a requested type and is not     *)
(* EndOfFile, and leaves it in place otherwise; the match leaves the token *)
(* sequence and the Stylesheet alone, and hadError and lastError too when  *)
(* it succeeds (when it fails, the caller's makeError writes them).  So    *)
(* the cursor never decreases and never passes the EndOfFile token.        *)
(***************************************************************************)
\* The token types the statement at a program point asks match for.
Requested(p) ==
  CASE p \in {"parseRule", "declName"} -> {"Identifier"}
    [] p = "ruleOpen" -> {"BraceOpen"}
    [] p = "declColon" -> {"Colon"}
    [] p = "declValue" -> ValueTypes
    [] p = "declSemicolon" -> {"Semicolon"}
    [] p = "ruleClose" -> {"BraceClose"}
    [] OTHER -> {}

MatchStep ==
  /\ tokens' = tokens
  /\ position' =
       IF at(tokens, position).type \in Requested(pc) \ {"EndOfFile"}
       THEN position + 1
       ELSE position
  /\ Requested(pc) # {} => stylesheet' = stylesheet
  /\ position' # position => (hadError' = hadError /\ lastError' = lastError)

MatchFrame == [](position <= Len(tokens) - 1) /\ [][MatchStep]_vars

\* match(Colon) has just failed on a value token and left the cursor on it.
MatchFailedInPlace ==
  /\ pc = "declValue"
  /\ lastCall = "Expected ':' after property name."
  /\ position = 3
  /\ at(tokens, position).type \in ValueTypes

(***************************************************************************)
(* C13: a double quote under the scan position starts a String token whose *)
(* text is exactly the characters after it up to, and excluding, the       *)
(* closing quote, or, when there is no closing quote, all the characters   *)
(* after it up to the end of the input.                                    *)
(***************************************************************************)
\* The scan positions at which the tokenize loop stands.
RECURSIVE lexPositions(_, _)
lexPositions(text, pos) ==
  IF pos < Len(text)
  THEN {pos} \cup lexPositions(text, lexStep(text, pos).pos)
  ELSE {}

\* The first position after p that holds character c, or the length of the text.
FirstAfter(text, p, c) ==
  LET hits == {j \in (p + 1)..(Len(text) - 1) : text[j + 1] = c}
  IN IF hits = {} THEN Len(text) ELSE CHOOSE j \in hits : \A k \in hits : j <= k

StringBody ==
  pc = "idle" =>
    \A p \in lexPositions(input, 0) :
      input[p + 1] = "\"" =>
        lexStep(input, p).emit =
          <<Token("String", SubSeq(input, p + 2, FirstAfter(input, p, "\"")))>>

(***************************************************************************)
(* C14: on '#' the tokenizer consumes every character up to, and not       *)
(* including, the next ';' (or to the end of the input), whatever they     *)
(* are; it emits a HexColor token holding them when there are exactly 6    *)
(* and otherwise an Unknown token `<InvalidColor>`, and the ';' itself is  *)
(* tokenized next, as a Semicolon.                                         *)
(***************************************************************************)
HexBody ==
  pc = "idle" =>
    \A p \in lexPositions(input, 0) :
      input[p + 1] = "#" =>
        LET stop == FirstAfter(input, p, ";")
            body == SubSeq(input, p + 2, stop)
            s == lexStep(input, p)
        IN /\ s.pos = stop
           /\ s.emit = <<IF Len(body) = 6 THEN Token("HexColor", body)
                         ELSE Token("Unknown", InvalidColor)>>
           /\ stop < Len(input) =>
                lexStep(input, stop) =
                  [pos |-> stop + 1, emit |-> <<Token("Semicolon", <<";">>)>>]

\* A '#' body of 6 characters, one of them a brace, taken as a HexColor before its ';'.
HexBodyWithBrace ==
  /\ pc = "idle"
  /\ tokens = <<Token("HexColor", <<"1", "2", "3", "4", "5", "{">>),
                Token("Semicolon", <<";">>), Token("EndOfFile", <<>>)>>

(***************************************************************************)
(* C15: when a rule starts with BraceOpen instead of an Identifier and the *)
(* input is otherwise well-formed, every rule with at least one            *)
(* declaration, parseSelector consumes no token for that rule (the cursor  *)
(* is on the BraceOpen when it returns, with the selector empty), no error *)
(* is raised, and when parse() has returned the declarations of that rule  *)
(* are stored under the empty selector.                                    *)
(***************************************************************************)
\* The tokens with an Identifier of empty text put before each BraceOpen that starts a rule.
WithSelectors(toks) ==
  Concat([i \in DOMAIN toks |->
            IF toks[i].type = "BraceOpen"
                 /\ (i = 1 \/ toks[i - 1].type = "BraceClose")
            THEN <<Token("Identifier", <<>>), toks[i]>>
            ELSE <<toks[i]>>])

AnonymousRuleTokens ==
  LET sh == Shape(WithSelectors(tokens))
  IN /\ WithSelectors(tokens) # tokens
     /\ sh.ok /\ ~sh.trunc /\ sh.miss = 0 /\ sh.empty = 0

\* (the conclusion first: the form of the tokens is looked at only where it matters)
AnonymousRule ==
  \/ /\ ~hadError
     /\ pc # "aborted"
     /\ pc = "ruleOpen" =>
          /\ at(tokens, position).type = "BraceOpen"
          /\ selector = <<>> <=>
               (position = 0 \/ at(tokens, position - 1).type = "BraceClose")
     /\ pc = "done" =>
          stylesheet = ExpectedSheet(Shape(WithSelectors(tokens)).decls)
  \/ ~AnonymousRuleTokens

\* parse() has returned from a named rule followed by a rule without selector.
AnonymousRuleStored ==
  /\ pc = "done"
  /\ AnonymousRuleTokens
  /\ tokens[1].type = "Identifier"
  /\ DOMAIN stylesheet = {<<>>, tokens[1].value}

(***************************************************************************)
(* C16: in every reachable state every property key stored in a            *)
(* PropertyTable is the text of an Identifier token of the token sequence  *)
(* and every stored value is the text of a Number, String, Identifier or   *)
(* HexColor token of it.                                                   *)
(***************************************************************************)
TextsOf(types) == {tokens[i].value : i \in {j \in DOMAIN tokens : tokens[j].type \in types}}

StoredFromTokens ==
  \A s \in DOMAIN stylesheet :
    \A p \in DOMAIN stylesheet[s] :
      /\ p \in TextsOf({"Identifier"})
      /\ stylesheet[s][p] \in TextsOf(ValueTypes)

(***************************************************************************)
(* C17: once a first call of parse() has returned, a second call returns   *)
(* at its first loop test without entering parseRule and leaves the        *)
(* cursor, the Stylesheet, hadError and lastError as the first call left   *)
(* them, whether the first call ended at the end of the input or on an     *)
(* error.                                                                  *)
(***************************************************************************)
SecondCallStep ==
  (pc = "done" \/ calls >= 2) =>
    /\ pc' \in {"parse", "done"}
    /\ pc = "parse" => pc' = "done"
    /\ position' = position
    /\ stylesheet' = stylesheet
    /\ hadError' = hadError
    /\ lastError' = lastError

ParseIdempotent == [][SecondCallStep]_vars

\* A second call has returned after a first call that an error ended before the end of the input.
SecondCallAfterError ==
  /\ pc = "done"
  /\ calls = 2
  /\ hadError
  /\ ~isAtEnd(tokens, position)
  /\ stylesheet # EmptyMap

====
